---- MODULE Spec2Model ----
(***************************************************************************)
(* Pagination engine and checkpoint store of mainstay_connect              *)
(* (src/mainstay_connect/utils/pagination_utils.py) and the connector's    *)
(* token handling, endpoint calls and checkpoint flattening                 *)
(* (src/mainstay_connect/connect.py).                                      *)
(*                                                                         *)
(* Strings that the code formats, globs or lower-cases are sequences of    *)
(* one-character strings; a path is a sequence of component names below    *)
(* the working directory; a Python value is a record tagged with its type. *)
(***************************************************************************)
EXTENDS Integers, Sequences, FiniteSets, TLC

VARIABLES dirs, files, keyring, connector, call

vars == <<dirs, files, keyring, connector, call>>

(* ------------------------------ bounds -------------------------------- *)

\* page indices passed to the store are 0..MaxIndex
MaxIndex == 1
\* the checkpoint locations hold at most MaxFiles files in total
MaxFiles == 2
\* the remote serves chains of at most MaxPages pages
MaxPages == 2

(* --------------------------- Python values ---------------------------- *)

PyNone == [t |-> "NoneType", s |-> "", l |-> <<>>]
PyStr(s) == [t |-> "str", s |-> s, l |-> <<>>]
PyInt(n) == [t |-> "int", s |-> "", l |-> <<n>>]
PyList(l) == [t |-> "list", s |-> "", l |-> l]

\* an object handed to the engine: a dict (items in insertion order) or None
PyDict(items) == [t |-> "dict", items |-> items]
NoneObj == [t |-> "NoneType", items |-> <<>>]
Item(k, v) == [k |-> k, v |-> v]

HasKey(obj, k) == \E i \in 1..Len(obj.items) : obj.items[i].k = k
GetItem(obj, k) == obj.items[CHOOSE i \in 1..Len(obj.items) : obj.items[i].k = k].v
\* dict.get(k): the value, or None when the key is missing
DictGet(obj, k) == IF HasKey(obj, k) THEN GetItem(obj, k) ELSE PyNone

\* truthiness of a value used as a condition
Truthy(v) == CASE v.t = "NoneType" -> FALSE
               [] v.t = "str" -> v.s # ""
               [] v.t = "list" -> v.l # <<>>
               [] v.t = "int" -> v.l # <<0>>
               [] OTHER -> TRUE

(* ------------------------------- pages -------------------------------- *)

\* pages that pass validation: with a cursor and a metadata field, with a
\* null cursor, and without the `next` key
PageWithNext == PyDict(<<Item("count", PyInt(2)), Item("next", PyStr("uri")), Item("results", PyList(<<1>>))>>)
PageNullNext == PyDict(<<Item("results", PyList(<<>>)), Item("next", PyNone)>>)
PageNoNextKey == PyDict(<<Item("results", PyList(<<2>>))>>)
ValidPages == {PageWithNext, PageNullNext, PageNoNextKey}

\* pages that fail validation: not a dict, no `results`, `results` not a list
PageNoResults == PyDict(<<Item("next", PyNone)>>)
PageResultsNotList == PyDict(<<Item("results", PyStr("x")), Item("next", PyNone)>>)
\* a last page with two records
PageTwoRecords == PyDict(<<Item("results", PyList(<<3, 4>>)), Item("next", PyNone)>>)
InvalidPages == {NoneObj, PageNoResults, PageResultsNotList}

Pages == ValidPages \cup InvalidPages


(* ------------------------------ strings ------------------------------- *)

DigitChars == <<"0", "1", "2", "3", "4", "5", "6", "7", "8", "9">>

RECURSIVE Decimal(_)
\* str(n) for n >= 0, as the f-string formats the iteration
Decimal(n) == IF n < 10 THEN <<DigitChars[n + 1]>>
              ELSE Decimal(n \div 10) \o <<DigitChars[(n % 10) + 1]>>

IsPrefix(p, s) == Len(p) <= Len(s) /\ SubSeq(s, 1, Len(p)) = p
IsSuffix(x, s) == Len(x) <= Len(s) /\ SubSeq(s, Len(s) - Len(x) + 1, Len(s)) = x

LowerChar(c) == CASE c = "D" -> "d" [] c = "E" -> "e" [] c = "L" -> "l"
                  [] c = "T" -> "t" [] c = "N" -> "n" [] c = "O" -> "o"
                  [] OTHER -> c
\* str.lower()
Lower(s) == [i \in 1..Len(s) |-> LowerChar(s[i])]

Extension == <<".", "p", "i", "c", "k", "l", "e">>
PageInfix == <<"_", "p", "a", "g", "e", "-">>

\* f"{name}_page-{iteration}.pickle"
FileName(name, iteration) == name \o PageInfix \o Decimal(iteration) \o Extension

\* Path.name taken for Path.stem
StemKeepsSuffix(fn) == fn

\* Path.stem: the file name without its last suffix
Stem(fn) ==
    LET dots == {i \in 1..Len(fn) : fn[i] = "."}
        last == CHOOSE i \in dots : \A j \in dots : j <= i
    IN IF dots # {} /\ 1 < last /\ last < Len(fn) THEN SubSeq(fn, 1, last - 1) ELSE fn

\* fnmatch of a file name against f'{name}*{extension}' (name and extension
\* hold no glob metacharacter)
GlobMatch(fn, name, extension) ==
    /\ Len(fn) >= Len(name) + Len(extension)
    /\ IsPrefix(name, fn)
    /\ IsSuffix(extension, fn)

(* ------------------------------- pickle ------------------------------- *)

Tok(op, k, v) == [op |-> op, k |-> k, v |-> v]
StopTok == Tok("STOP", "", PyNone)

\* pickle.dump: the object as a stream of opcodes
PickleDump(obj) ==
    IF obj.t = "dict"
    THEN <<Tok("EMPTY_DICT", "", PyNone)>>
         \o [i \in 1..Len(obj.items) |-> Tok("SETITEM", obj.items[i].k, obj.items[i].v)]
         \o <<StopTok>>
    ELSE <<Tok("NONE", "", PyNone), StopTok>>

RECURSIVE Unpickle(_, _, _)
Unpickle(stream, i, obj) ==
    IF i > Len(stream) \/ stream[i].op = "STOP" THEN obj
    ELSE IF stream[i].op = "EMPTY_DICT" THEN Unpickle(stream, i + 1, PyDict(<<>>))
    ELSE IF stream[i].op = "NONE" THEN Unpickle(stream, i + 1, NoneObj)
    ELSE Unpickle(stream, i + 1,
                  PyDict(Append(obj.items, Item(stream[i].k, stream[i].v))))

\* pickle.load: the object a stream of opcodes rebuilds
PickleLoad(stream) == Unpickle(stream, 1, NoneObj)

(* ----------------------------- file system ---------------------------- *)

\* checkpoint locations a caller passes: one directly below the working
\* directory, one whose parent directory does not exist
LocFlat == <<"checkpoints">>
LocNested == <<"out", "checkpoints">>
Locations == {LocFlat, LocNested}
WorkingDir == <<>>

Names == {<<"r", "u", "n">>, <<"r", "u", "n", "2">>}
Indices == 0..MaxIndex

Parent(path) == SubSeq(path, 1, Len(path) - 1)
FileKey(directory, fn) == [dir |-> directory, file |-> fn]

\* the file names in a directory
Listing(fs, directory) == {k.file : k \in {x \in DOMAIN fs : x.dir = directory}}

\* a write that leaves an existing file as it is
WriteFileKeepExisting(fs, key, content) ==
    [k \in DOMAIN fs \cup {key} |-> IF k \in DOMAIN fs THEN fs[k] ELSE content]

\* open(filepath, "wb") then dump: the file is created or replaced
WriteFile(fs, key, content) ==
    [k \in DOMAIN fs \cup {key} |-> IF k = key THEN content ELSE fs[k]]

\* Path.unlink of every key in `keys`
Unlink(fs, keys) == [k \in DOMAIN fs \ keys |-> fs[k]]

\* a glob that selects by extension only
GlobWholeDirectory(fs, path, name, extension) ==
    {k \in DOMAIN fs : k.dir = path /\ IsSuffix(extension, k.file)}

\* Path.glob(f'{name}*{extension}'): the matching entries of the directory
\* (none when the directory does not exist)
Glob(fs, path, name, extension) ==
    {k \in DOMAIN fs : k.dir = path /\ GlobMatch(k.file, name, extension)}

\* a generator yields each item once: iterating it to the end leaves it empty
Generator(items) == [pending |-> items]
Drain(gen) == [yielded |-> gen.pending, gen |-> [pending |-> {}]]

(* --------------------------- checkpoint store -------------------------- *)

\* Path.mkdir() without parents=True
Mkdir(ds, directory) ==
    IF directory \in ds THEN [exc |-> "FileExistsError", dirs |-> ds]
    ELSE IF Parent(directory) \notin ds THEN [exc |-> "FileNotFoundError", dirs |-> ds]
    ELSE [exc |-> "", dirs |-> ds \cup {directory}]

\* serialize_output: what it raises (exc = "" when it returns) and the file
\* system it leaves
SerializeOutput(output, directory, name, iteration, ds, fs) ==
    LET made == IF directory \notin ds THEN Mkdir(ds, directory)
                ELSE [exc |-> "", dirs |-> ds]
        filepath == FileKey(directory, FileName(name, iteration))
    IN IF made.exc # ""
       THEN [exc |-> made.exc, dirs |-> made.dirs, files |-> fs]
       ELSE [exc |-> "", dirs |-> made.dirs,
             files |-> WriteFile(fs, filepath, PickleDump(output))]

\* load_paginated_checkpoints: the returned dict, as its set of items
LoadPaginatedCheckpoints(fs, path, name, extension) ==
    {[key |-> Stem(k.file), value |-> PickleLoad(fs[k])] :
        k \in Glob(fs, path, name, extension)}

\* a confirmation test that accepts any non-empty answer
ConfirmedAnyAnswer(confirm) == confirm # <<>>

\* the confirmation test of remove_paginated_checkpoints
Confirmed(confirm) == Lower(confirm) = <<"d", "e", "l", "e", "t", "e">>

\* a removal that takes the directory whatever it holds
RmdirForce(ds, fs, path) ==
    IF path \in ds THEN [exc |-> "", dirs |-> ds \ {path}]
    ELSE [exc |-> "OSError", dirs |-> ds]

\* Path.rmdir(): only an existing, empty directory is removed
Rmdir(ds, fs, path) ==
    IF path \in ds /\ Listing(fs, path) = {} /\ ~\E d \in ds : d # path /\ IsPrefix(path, d)
    THEN [exc |-> "", dirs |-> ds \ {path}]
    ELSE [exc |-> "OSError", dirs |-> ds]

\* remove_paginated_checkpoints: the names it logs, the files it unlinks,
\* the outcome of the rmdir it attempts, and the file system it leaves
RemovePaginatedCheckpoints(ds, fs, path, name, extension, confirm) ==
    LET checkpoints_for_removal == Generator(Glob(fs, path, name, extension))
        listing == Drain(checkpoints_for_removal)
        deletion == Drain(listing.gen)
    IN IF Confirmed(confirm)
       THEN LET left == Unlink(fs, deletion.yielded)
                rm == Rmdir(ds, left, path)
            IN [logged |-> {k.file : k \in listing.yielded},
                unlinked |-> {k.file : k \in deletion.yielded},
                rmdir |-> IF rm.exc = "" THEN "removed" ELSE "OSError",
                dirs |-> rm.dirs, files |-> left]
       ELSE [logged |-> {k.file : k \in listing.yielded},
             unlinked |-> {},
             rmdir |-> "not attempted",
             dirs |-> ds, files |-> fs]

(* ------------------------------ engine -------------------------------- *)

\* an HTTP response as requests.get returns it
Response(status_code, body) == [status_code |-> status_code, body |-> body]

\* Response.raise_for_status(): raises for 4xx and 5xx only
RaiseForStatus(status_code) ==
    IF 400 <= status_code /\ status_code < 600 THEN "HTTPError" ELSE ""

\* format_output: the parsed body of a 200; otherwise whatever
\* raise_for_status does, and None when it returns
FormatOutput(output) ==
    IF output.status_code = 200 THEN [exc |-> "", val |-> output.body]
    ELSE IF RaiseForStatus(output.status_code) # ""
         THEN [exc |-> RaiseForStatus(output.status_code), val |-> NoneObj]
         ELSE [exc |-> "", val |-> NoneObj]

\* validate_paginated_results: the three assertions, in order
ValidatePaginatedResults(results) ==
    IF results.t # "dict" THEN "AssertionError"
    ELSE IF ~HasKey(results, "results") THEN "AssertionError"
    ELSE IF GetItem(results, "results").t # "list" THEN "AssertionError"
    ELSE ""

\* process_output with the two calls swapped: serialize, then validate
SerializeThenValidate(results, checkpoint_stem, name, iteration, ds, fs) ==
    LET w == SerializeOutput(results, checkpoint_stem, name, iteration, ds, fs)
    IN [exc |-> IF w.exc # "" THEN w.exc ELSE ValidatePaginatedResults(results),
        val |-> results, dirs |-> w.dirs, files |-> w.files]

\* process_output on an already formatted page: validate, then serialize
ValidateAndSerialize(results, checkpoint_stem, name, iteration, ds, fs) ==
    IF ValidatePaginatedResults(results) # ""
    THEN [exc |-> ValidatePaginatedResults(results), val |-> results,
          dirs |-> ds, files |-> fs]
    ELSE LET w == SerializeOutput(results, checkpoint_stem, name, iteration, ds, fs)
         IN [exc |-> w.exc, val |-> results, dirs |-> w.dirs, files |-> w.files]

\* process_output(format=True) on a response
ProcessOutput(response, checkpoint_stem, name, iteration, ds, fs) ==
    LET formatted == FormatOutput(response)
    IN IF formatted.exc # ""
       THEN [exc |-> formatted.exc, val |-> NoneObj, dirs |-> ds, files |-> fs]
       ELSE ValidateAndSerialize(formatted.val, checkpoint_stem, name, iteration, ds, fs)

\* Python's binary operators on the operand types of line 39: `/` joins a
\* Path with a str into a Path; `+` concatenates two str and is not defined
\* for a Path
Truediv(a, b) ==
    IF a.t = "Path" /\ b.t \in {"Path", "str"} THEN [exc |-> "", t |-> "Path"]
    ELSE [exc |-> "TypeError", t |-> "NoneType"]
Add(a, b) ==
    IF a.t = "str" /\ b.t = "str" THEN [exc |-> "", t |-> "str"]
    ELSE [exc |-> "TypeError", t |-> "NoneType"]

\* the argument of logger.add: Path('logs') / f"pagination_{output_name}" + "_{time}.log"
\* (`/` binds tighter than `+`)
LogSinkArgument(output_name) ==
    LET joined == Truediv([t |-> "Path"], [t |-> "str"])
    IN IF joined.exc # "" THEN joined ELSE Add(joined, [t |-> "str"])

(* ------------------------------- remote -------------------------------- *)

\* the cursor that page i (from 1) of a chain carries, and that page
CursorNames == <<"uri", "uri2", "uri3", "uri4">>
PageWithCursor(i) ==
    PyDict(<<Item("count", PyInt(2)), Item("next", PyStr(CursorNames[i])), Item("results", PyList(<<1>>))>>)

\* a request that the remote answers with a 500 instead of a page
ServerFailure == [t |-> "HTTP 500", items |-> <<>>]

\* what the remote serves to one run, page by page: pages with a cursor,
\* then a last page that has a null cursor, has no `next` key, or fails
\* validation, or a 500 in place of the last page
LastPages == {PageNullNext, PageNoNextKey, PageNoResults, ServerFailure}
ChainsUpTo(max) ==
    {[i \in 1..(n - 1) |-> PageWithCursor(i)] \o <<last>> : n \in 1..max, last \in LastPages}
Chains == ChainsUpTo(MaxPages)

\* what the remote answers to a GET of a cursor: the page after the one that
\* carries it
Served(chain, uri) ==
    chain[(CHOOSE j \in 1..(Len(chain) - 1) : DictGet(chain[j], "next") = uri) + 1]

\* the keyword arguments a run passes on to the original API call
RunKwargs == <<Item("since", PyInt(2))>>

\* one step of a run, as the caller and the remote can observe it; the GET of
\* line 57 is the one request the run itself sends, with headers=connector.headers
Event(e, i, url, params, page) ==
    [e |-> e, i |-> i, url |-> url, params |-> params, page |-> page,
     headers |-> IF e = "requests.get" THEN "connector.headers" ELSE ""]

\* pages 0..N-2 carry a non-empty `next`, page N-1 does not
FiniteChain(chain) ==
    /\ Len(chain) >= 1
    /\ \A i \in 1..Len(chain) : ValidatePaginatedResults(chain[i]) = ""
    /\ \A i \in 1..(Len(chain) - 1) : Truthy(DictGet(chain[i], "next"))
    /\ ~Truthy(DictGet(chain[Len(chain)], "next"))

(* ------------------------------ credentials ---------------------------- *)

\* service names a connector is built with, and tokens a user types
ServiceNames == {"MainstayConnector", "staging", "test"}
Tokens == {"t1", "t2"}

\* the system keyring: per service name, the password stored under
\* 'api_token', or None
EmptyKeyring == [service_name \in ServiceNames |-> PyNone]

\* keyring.get_password / keyring.set_password
GetPassword(kr, service_name) == kr[service_name]
SetPassword(kr, service_name, password) == [kr EXCEPT ![service_name] = PyStr(password)]

\* a get_token that prompts when nothing is stored and stores nothing
GetTokenNoPersist(kr, service_name, typed) ==
    LET token == GetPassword(kr, service_name)
    IN IF token = PyNone
       THEN [token |-> PyStr(typed), prompts |-> 1, keyring |-> kr]
       ELSE [token |-> token, prompts |-> 0, keyring |-> kr]

\* get_token: the stored token, or the one typed at the prompt, which is stored
GetToken(kr, service_name, typed) ==
    LET token == GetPassword(kr, service_name)
    IN IF token = PyNone
       THEN [token |-> PyStr(typed), prompts |-> 1,
             keyring |-> SetPassword(kr, service_name, typed)]
       ELSE [token |-> token, prompts |-> 0, keyring |-> kr]

\* reset_token: prompt and store
ResetToken(kr, service_name, typed) ==
    [prompts |-> 1, keyring |-> SetPassword(kr, service_name, typed)]

\* {"Authorization": f"APIToken {self.token}"}
Headers(token) == <<Item("Authorization", <<"APIToken ", token.s>>)>>

\* no MainstayConnect object has been constructed
NoConnector == [service_name |-> "", token |-> PyNone, headers |-> <<>>]

\* MainstayConnect.__init__: the object's fields, set once from get_token
MainstayConnectInit(kr, service_name, typed) ==
    LET r == GetToken(kr, service_name, typed)
    IN [self |-> [service_name |-> service_name, token |-> r.token,
                  headers |-> Headers(r.token)],
        prompts |-> r.prompts, keyring |-> r.keyring]

(* ------------------------------ connector ------------------------------ *)

\* MainstayConnect.base_url
BaseUrl == <<"https://api.admithub.com/">>

\* keyword arguments of an endpoint call, in the order the caller passes
\* them: none, or `page` and `since`, each None, 0 or 2
KwargValues == {PyNone, PyInt(0), PyInt(2)}
Kwargs == {<<>>} \cup {<<Item("page", v), Item("since", w)>> : v \in KwargValues, w \in KwargValues}

\* a filter that keeps the truthy values only
ParamsDropFalsy(kwargs) == SelectSeq(kwargs, LAMBDA item : Truthy(item.v))

\* {key: value for key, value in kwargs.items() if value is not None}
Params(kwargs) == SelectSeq(kwargs, LAMBDA item : item.v.t # "NoneType")

\* bodies the remote sends: a JSON object, a JSON error object, nothing
ContactBody == PyDict(<<Item("id", PyStr("123"))>>)
ErrorBody == PyDict(<<Item("detail", PyStr("Not found."))>>)
EmptyBody == [t |-> "empty", items |-> <<>>]

\* Response.json(): the parsed body, or JSONDecodeError for an empty one
ResponseJson(response) ==
    IF response.body = EmptyBody THEN [exc |-> "JSONDecodeError", val |-> NoneObj]
    ELSE [exc |-> "", val |-> response.body]

\* what the remote answers to an endpoint call
RemoteResponses == {Response(200, ContactBody), Response(201, ContactBody),
                    Response(204, EmptyBody), Response(400, ErrorBody),
                    Response(404, ErrorBody), Response(500, EmptyBody)}

\* get_mainstay_endpoint: the URL and the params of its one requests.get,
\* and what it raises or returns for the response it gets
GetMainstayEndpoint(base_url, endpoint, kwargs, response) ==
    LET url == base_url \o endpoint
        params == Params(kwargs)
        raised == IF response.status_code # 200
                  THEN RaiseForStatus(response.status_code) ELSE ""
        parsed == ResponseJson(response)
    IN [url |-> url, params |-> params, requests |-> 1,
        exc |-> IF raised # "" THEN raised ELSE parsed.exc,
        val |-> IF raised # "" THEN NoneObj ELSE parsed.val]

\* get_contact: endpoint f"contacts/{id}/"
GetContact(base_url, id, kwargs, response) ==
    GetMainstayEndpoint(base_url, <<"contacts/", id, "/">>, kwargs, response)

\* the per-endpoint wrappers: the endpoint and the keyword arguments each
\* hands to get_mainstay_endpoint
GetContacts(kwargs) == [endpoint |-> <<"contacts/">>, kwargs |-> kwargs]
GetCustomFields == [endpoint |-> <<"custom_fields/">>, kwargs |-> <<>>]
GetCustomValues(field) ==
    [endpoint |-> <<"custom_values/">>, kwargs |-> <<Item("field", field)>>]
GetDefaultFields == [endpoint |-> <<"default_fields/">>, kwargs |-> <<>>]
\* endpoint = self.base_url + "campaigns/"
GetCampaignList(base_url, kwargs) ==
    [endpoint |-> base_url \o <<"campaigns/">>, kwargs |-> kwargs]
GetMessages(kwargs) == [endpoint |-> <<"messages/">>, kwargs |-> kwargs]

Wrappers == {"get_contact", "get_contacts", "get_custom_fields", "get_custom_values",
             "get_default_fields", "get_campaign_list", "get_messages"}

\* the get_mainstay_endpoint call a wrapper makes; arg is its positional
\* argument (id of get_contact, field of get_custom_values)
WrapperCall(wrapper, base_url, arg, kwargs) ==
    CASE wrapper = "get_contact" -> [endpoint |-> <<"contacts/", arg.s, "/">>, kwargs |-> kwargs]
      [] wrapper = "get_contacts" -> GetContacts(kwargs)
      [] wrapper = "get_custom_fields" -> GetCustomFields
      [] wrapper = "get_custom_values" -> GetCustomValues(arg)
      [] wrapper = "get_default_fields" -> GetDefaultFields
      [] wrapper = "get_campaign_list" -> GetCampaignList(base_url, kwargs)
      [] wrapper = "get_messages" -> GetMessages(kwargs)

\* test_connection: one GET to base_url + "auth_valid"; the parsed body with
\* the status code added under 'response_code', whatever the status
TestConnection(base_url, response) ==
    LET parsed == ResponseJson(response)
    IN [url |-> base_url \o <<"auth_valid">>, requests |-> 1, exc |-> parsed.exc,
        val |-> IF parsed.exc # "" THEN NoneObj
                ELSE PyDict(parsed.val.items \o
                            <<Item("response_code", PyInt(response.status_code))>>)]

\* the orders in which a directory scan can yield a set of entries
Enumerations(entries) ==
    {order \in [1..Cardinality(entries) -> entries] :
        \A i, j \in 1..Cardinality(entries) : i # j => order[i] # order[j]}

\* the dict load_paginated_checkpoints builds, as its items in insertion
\* order: one per entry, in the order the glob yields them
LoadedPaginations(fs, order) ==
    [i \in 1..Len(order) |-> [key |-> Stem(order[i].file), value |-> PickleLoad(fs[order[i]])]]

\* what pagination_list[page_id]['results'] raises for one loaded page
ResultsError(page) ==
    IF page.t # "dict" THEN "TypeError"
    ELSE IF ~HasKey(page, "results") THEN "KeyError"
    ELSE ""

\* for result in page['results']: the elements of a list, the characters of a str
Records(page) ==
    LET results == GetItem(page, "results")
    IN IF results.t = "str" THEN <<results.s>> ELSE results.l

RECURSIVE CombineDropDuplicates(_)
\* a combination that keeps the first occurrence of each record only
CombineDropDuplicates(pagination_list) ==
    IF pagination_list = <<>> THEN [exc |-> "", rows |-> <<>>]
    ELSE LET n == Len(pagination_list)
             before == CombineDropDuplicates(SubSeq(pagination_list, 1, n - 1))
             page == pagination_list[n].value
         IN IF before.exc # "" THEN before
            ELSE IF ResultsError(page) # "" THEN [exc |-> ResultsError(page), rows |-> <<>>]
            ELSE [exc |-> "",
                  rows |-> before.rows \o SelectSeq(Records(page),
                              LAMBDA r : \A i \in 1..Len(before.rows) : before.rows[i] # r)]

RECURSIVE CombinePaginationResults(_)
\* combine_pagination_results: the records of every page, page after page in
\* the dict's iteration order
CombinePaginationResults(pagination_list) ==
    IF pagination_list = <<>> THEN [exc |-> "", rows |-> <<>>]
    ELSE LET n == Len(pagination_list)
             before == CombinePaginationResults(SubSeq(pagination_list, 1, n - 1))
             page == pagination_list[n].value
         IN IF before.exc # "" THEN before
            ELSE IF ResultsError(page) # "" THEN [exc |-> ResultsError(page), rows |-> <<>>]
            ELSE [exc |-> "", rows |-> before.rows \o Records(page)]

(* ------------------------------- frames -------------------------------- *)

\* the most recent top-level call: its arguments, where it stands, what it
\* raised or returned, and the effects it had
Frame(op) ==
    [op |-> op, pc |-> "done", exc |-> "",
     dir |-> <<>>, name |-> <<>>, index |-> 0, obj |-> NoneObj,
     format |-> FALSE, status |-> 0, confirm |-> <<>>,
     returns |-> "None", ret |-> {},
     overwrote |-> FALSE, logged |-> {}, unlinked |-> {}, rmdir |-> "not attempted",
     serialize |-> FALSE, sleep |-> FALSE, chain |-> <<>>,
     fetches |-> 0, gets |-> 0, sleeps |-> 0,
     written |-> <<>>, next_URI |-> PyNone,
     url |-> <<>>, kwargs |-> <<>>, params |-> <<>>, requests |-> 0,
     raw |-> FALSE, order |-> <<>>, rows |-> <<>>,
     service |-> "", prompts |-> 0, typed |-> PyNone, token |-> PyNone,
     headers |-> <<>>, wrapper |-> "", arg |-> PyNone, endpoint |-> <<>>,
     forwarded |-> <<>>,
     trace |-> <<>>]

Confirmations == {<<"D", "E", "L", "E", "T", "E">>, <<"D", "e", "l", "e", "t", "e">>, <<"n", "o">>}

\* responses handed to process_output: a 200 with a valid body, a 200 with a
\* malformed body, a 204 and a 500
Responses == {Response(200, PageNullNext), Response(200, PageNoResults),
              Response(204, NoneObj), Response(500, NoneObj)}
\* already parsed pages handed to process_output(format=False)
ParsedPages == {PageNullNext} \cup InvalidPages
\* pages handed to serialize_output
StorePages == {PageWithNext, PageNullNext}
\* the run name of the pagination runs
RunName == <<"r", "u", "n">>
\* pages whose records are flattened: one record, two records, no `results`
RecordPages == {PageWithNext, PageTwoRecords, PageNoResults}
\* endpoints and contact ids of the direct calls
Endpoints == {<<"messages/">>}
ContactIds == {"123"}
\* the positional arguments and the keyword arguments a wrapper accepts
FieldNames == {"major"}
WrapperArgs(wrapper) ==
    CASE wrapper = "get_contact" -> {PyStr(id) : id \in ContactIds}
      [] wrapper = "get_custom_values" -> {PyStr(field) : field \in FieldNames}
      [] OTHER -> {PyNone}
WrapperKwargs(wrapper) ==
    IF wrapper \in {"get_custom_fields", "get_custom_values", "get_default_fields"}
    THEN {<<>>}
    ELSE {<<>>, <<Item("page", PyNone), Item("since", PyInt(2))>>}
\* what the remote answers to a request of the connector
ConnectorResponses == {Response(200, ContactBody), Response(404, ErrorBody)}

FileCount(fs) == Cardinality(DOMAIN fs)

(* ------------------------------- actions ------------------------------- *)

\* no top-level call is made while another is running
Idle == call.pc \in {"done", "raised"}

Init ==
    /\ dirs \in {{WorkingDir}, {WorkingDir, LocFlat}}
    /\ files = [k \in {} |-> <<>>]
    /\ keyring = EmptyKeyring
    /\ connector = NoConnector
    /\ call = Frame("none")

\* a caller persists one object
CallSerializeOutput ==
    \E output \in StorePages, directory \in Locations, name \in Names, iteration \in Indices :
        LET r == SerializeOutput(output, directory, name, iteration, dirs, files)
        IN /\ FileCount(r.files) <= MaxFiles
           /\ dirs' = r.dirs
           /\ files' = r.files
           /\ call' = [Frame("serialize_output") EXCEPT
                         !.pc = IF r.exc = "" THEN "done" ELSE "raised",
                         !.exc = r.exc, !.dir = directory, !.name = name,
                         !.index = iteration, !.obj = output,
                         !.overwrote = (FileKey(directory, FileName(name, iteration)) \in DOMAIN files)]

\* a caller hands one response or one already parsed page to process_output
CallProcessOutput ==
    \E directory \in {LocFlat}, name \in Names, iteration \in Indices, format \in BOOLEAN :
      \E results \in IF format THEN Responses ELSE {Response(0, p) : p \in ParsedPages} :
        LET r == IF format
                 THEN ProcessOutput(results, directory, name, iteration, dirs, files)
                 ELSE ValidateAndSerialize(results.body, directory, name, iteration, dirs, files)
        IN /\ FileCount(r.files) <= MaxFiles
           /\ dirs' = r.dirs
           /\ files' = r.files
           /\ call' = [Frame("process_output") EXCEPT
                         !.pc = IF r.exc = "" THEN "done" ELSE "raised",
                         !.exc = r.exc, !.dir = directory, !.name = name,
                         !.index = iteration, !.obj = r.val,
                         !.format = format, !.status = results.status_code,
                         !.returns = IF r.exc = "" THEN "page" ELSE "None"]

\* a caller reloads the checkpoints of a run name
CallLoadPaginatedCheckpoints ==
    \E path \in Locations, name \in Names :
        /\ call' = [Frame("load_paginated_checkpoints") EXCEPT
                      !.dir = path, !.name = name, !.returns = "dict",
                      !.ret = LoadPaginatedCheckpoints(files, path, name, Extension)]
        /\ UNCHANGED <<dirs, files>>

\* a caller purges the checkpoints of a run name and answers the prompt
CallRemovePaginatedCheckpoints ==
    \E path \in Locations, name \in Names, confirm \in Confirmations :
        LET r == RemovePaginatedCheckpoints(dirs, files, path, name, Extension, confirm)
        IN /\ dirs' = r.dirs
           /\ files' = r.files
           /\ call' = [Frame("remove_paginated_checkpoints") EXCEPT
                         !.dir = path, !.name = name, !.confirm = confirm,
                         !.logged = r.logged, !.unlinked = r.unlinked,
                         !.rmdir = r.rmdir]

\* extract_paginated_results with a non-empty output_name, up to the first
\* API call (lines 37-48): the log sink, whose argument is evaluated first
CallExtractPaginatedResults ==
    \E output_name \in {RunName}, serialize \in BOOLEAN,
       sleep_duration \in BOOLEAN, chain \in Chains :
        LET sink == LogSinkArgument(output_name)
        IN /\ call' = [Frame("extract_paginated_results") EXCEPT
                         !.pc = IF sink.exc = "" THEN "first_call" ELSE "raised",
                         !.exc = sink.exc, !.dir = LocFlat, !.name = output_name,
                         !.serialize = serialize, !.sleep = sleep_duration,
                         !.chain = chain, !.kwargs = RunKwargs]
           /\ UNCHANGED <<dirs, files>>

Next ==
    \/ Idle /\ CallSerializeOutput /\ UNCHANGED <<keyring, connector>>
    \/ Idle /\ CallProcessOutput /\ UNCHANGED <<keyring, connector>>
    \/ Idle /\ CallLoadPaginatedCheckpoints /\ UNCHANGED <<keyring, connector>>
    \/ Idle /\ CallRemovePaginatedCheckpoints /\ UNCHANGED <<keyring, connector>>
    \/ Idle /\ CallExtractPaginatedResults /\ UNCHANGED <<keyring, connector>>

Spec == Init /\ [][Next]_vars

(* --------------------------- connector calls --------------------------- *)

\* a caller persists one page of the run in the flat location
CallSerializeRecords ==
    \E output \in RecordPages, iteration \in Indices :
        LET r == SerializeOutput(output, LocFlat, RunName, iteration, dirs, files)
        IN /\ FileCount(r.files) <= MaxFiles
           /\ dirs' = r.dirs
           /\ files' = r.files
           /\ call' = [Frame("serialize_output") EXCEPT
                         !.pc = IF r.exc = "" THEN "done" ELSE "raised",
                         !.exc = r.exc, !.dir = LocFlat, !.name = RunName,
                         !.index = iteration, !.obj = output,
                         !.overwrote = (FileKey(LocFlat, FileName(RunName, iteration)) \in DOMAIN files)]

\* MainstayConnect.get_mainstay_endpoint; the remote answers the request
CallGetMainstayEndpoint ==
    \E endpoint \in Endpoints, kwargs \in Kwargs, response \in RemoteResponses :
        LET r == GetMainstayEndpoint(BaseUrl, endpoint, kwargs, response)
        IN /\ call' = [Frame("get_mainstay_endpoint") EXCEPT
                         !.pc = IF r.exc = "" THEN "done" ELSE "raised",
                         !.exc = r.exc, !.url = r.url, !.kwargs = kwargs,
                         !.params = r.params, !.requests = r.requests,
                         !.status = response.status_code, !.obj = r.val,
                         !.returns = IF r.exc = "" THEN "json" ELSE "None"]
           /\ UNCHANGED <<dirs, files>>

\* MainstayConnect.get_contact
CallGetContact ==
    \E id \in ContactIds, kwargs \in Kwargs, response \in RemoteResponses :
        LET r == GetContact(BaseUrl, id, kwargs, response)
        IN /\ call' = [Frame("get_contact") EXCEPT
                         !.pc = IF r.exc = "" THEN "done" ELSE "raised",
                         !.exc = r.exc, !.url = r.url, !.kwargs = kwargs,
                         !.params = r.params, !.requests = r.requests,
                         !.status = response.status_code, !.obj = r.val,
                         !.returns = IF r.exc = "" THEN "json" ELSE "None"]
           /\ UNCHANGED <<dirs, files>>

\* MainstayConnect.load_paginated_checkpoints(path, name, raw); the directory
\* scan behind the glob yields the matching files in some order
CallConnectorLoadPaginatedCheckpoints ==
    \E path \in {LocFlat}, name \in {RunName}, raw \in BOOLEAN :
      \E order \in Enumerations(Glob(files, path, name, Extension)) :
        LET loaded_paginations == LoadedPaginations(files, order)
            combined == CombinePaginationResults(loaded_paginations)
        IN /\ call' = IF raw
                      THEN [Frame("MainstayConnect.load_paginated_checkpoints") EXCEPT
                              !.dir = path, !.name = name, !.raw = raw, !.order = order,
                              !.returns = "dict",
                              !.ret = {loaded_paginations[i] : i \in 1..Len(order)}]
                      ELSE [Frame("MainstayConnect.load_paginated_checkpoints") EXCEPT
                              !.dir = path, !.name = name, !.raw = raw, !.order = order,
                              !.pc = IF combined.exc = "" THEN "done" ELSE "raised",
                              !.exc = combined.exc,
                              !.returns = IF combined.exc = "" THEN "DataFrame" ELSE "None",
                              !.rows = combined.rows]
           /\ UNCHANGED <<dirs, files>>

NextConnect ==
    \/ Idle /\ CallSerializeRecords /\ UNCHANGED <<keyring, connector>>
    \/ Idle /\ CallGetMainstayEndpoint /\ UNCHANGED <<keyring, connector>>
    \/ Idle /\ CallGetContact /\ UNCHANGED <<keyring, connector>>
    \/ Idle /\ CallConnectorLoadPaginatedCheckpoints /\ UNCHANGED <<keyring, connector>>

SpecConnect == Init /\ [][NextConnect]_vars

(* --------------------------- credential calls -------------------------- *)

\* MainstayConnect.get_token; the user types a token if prompted
CallGetToken ==
    \E service_name \in ServiceNames, typed \in Tokens :
        LET r == GetToken(keyring, service_name, typed)
        IN /\ keyring' = r.keyring
           /\ call' = [Frame("get_token") EXCEPT
                         !.service = service_name, !.prompts = r.prompts,
                         !.typed = IF r.prompts > 0 THEN PyStr(typed) ELSE PyNone,
                         !.token = r.token, !.returns = "str"]
           /\ UNCHANGED <<dirs, files>>

\* MainstayConnect.reset_token; the user types the new token
CallResetToken ==
    \E service_name \in ServiceNames, typed \in Tokens :
        LET r == ResetToken(keyring, service_name, typed)
        IN /\ keyring' = r.keyring
           /\ call' = [Frame("reset_token") EXCEPT
                         !.service = service_name, !.prompts = r.prompts,
                         !.typed = PyStr(typed)]
           /\ UNCHANGED <<dirs, files>>

NextToken ==
    \/ Idle /\ CallGetToken /\ UNCHANGED connector
    \/ Idle /\ CallResetToken /\ UNCHANGED connector

SpecToken == Init /\ [][NextToken]_vars

(* ----------------------------- one connector --------------------------- *)

\* connector = MainstayConnect(service_name); the user types a token if
\* get_token prompts
CallMainstayConnect ==
    \E service_name \in ServiceNames, typed \in Tokens :
        LET r == MainstayConnectInit(keyring, service_name, typed)
        IN /\ keyring' = r.keyring
           /\ connector' = r.self
           /\ call' = [Frame("MainstayConnect") EXCEPT
                         !.service = service_name, !.prompts = r.prompts,
                         !.typed = IF r.prompts > 0 THEN PyStr(typed) ELSE PyNone,
                         !.token = r.self.token]
           /\ UNCHANGED <<dirs, files>>

\* connector.get_token() and connector.reset_token(): neither assigns
\* self.token or self.headers
ConnectorGetToken ==
    /\ CallGetToken
    /\ call'.service = connector.service_name
    /\ UNCHANGED connector

ConnectorResetToken ==
    /\ CallResetToken
    /\ call'.service = connector.service_name
    /\ UNCHANGED connector

\* connector.test_connection(): requests.get(auth_url, headers=self.headers)
CallTestConnection ==
    \E response \in ConnectorResponses :
        LET r == TestConnection(BaseUrl, response)
        IN /\ call' = [Frame("test_connection") EXCEPT
                         !.pc = IF r.exc = "" THEN "done" ELSE "raised",
                         !.exc = r.exc, !.url = r.url, !.requests = r.requests,
                         !.headers = connector.headers,
                         !.status = response.status_code, !.obj = r.val,
                         !.returns = IF r.exc = "" THEN "json" ELSE "None"]
           /\ UNCHANGED <<dirs, files, keyring, connector>>

\* a per-endpoint wrapper of the connector; get_mainstay_endpoint sends
\* requests.get(url, headers=self.headers, params=params)
CallWrapper ==
    \E wrapper \in Wrappers, response \in ConnectorResponses :
      \E arg \in WrapperArgs(wrapper), kwargs \in WrapperKwargs(wrapper) :
        LET w == WrapperCall(wrapper, BaseUrl, arg, kwargs)
            r == GetMainstayEndpoint(BaseUrl, w.endpoint, w.kwargs, response)
        IN /\ call' = [Frame("wrapper") EXCEPT
                         !.wrapper = wrapper, !.arg = arg, !.kwargs = kwargs,
                         !.endpoint = w.endpoint, !.forwarded = w.kwargs,
                         !.pc = IF r.exc = "" THEN "done" ELSE "raised",
                         !.exc = r.exc, !.url = r.url,
                         !.params = r.params, !.requests = r.requests,
                         !.headers = connector.headers,
                         !.status = response.status_code, !.obj = r.val,
                         !.returns = IF r.exc = "" THEN "json" ELSE "None"]
           /\ UNCHANGED <<dirs, files, keyring, connector>>

Constructed == connector # NoConnector

NextSession ==
    \/ Idle /\ CallMainstayConnect
    \/ Idle /\ Constructed /\ ConnectorGetToken
    \/ Idle /\ Constructed /\ ConnectorResetToken
    \/ Idle /\ Constructed /\ CallTestConnection
    \/ Idle /\ Constructed /\ CallWrapper
    \/ Idle /\ Constructed /\ CallExtractPaginatedResults /\ UNCHANGED <<keyring, connector>>

SpecSession == Init /\ [][NextSession]_vars

(* ------------------------------ traversal ------------------------------ *)

\* Lines 49-63 of extract_paginated_results, one action per statement, from
\* the state in which the statements before line 49 have completed. No call
\* gets there (CallExtractPaginatedResults raises at line 39), so these
\* actions are no part of Next; SpecTraversal runs them on their own.

Running(pc) == call.op = "extract_paginated_results" /\ call.pc = pc

\* line 49: the original API call returns the first page of the chain, or
\* raises the HTTPError of a 500
FirstCall ==
    /\ Running("first_call")
    /\ call' = IF call.chain[1] = ServerFailure
               THEN [call EXCEPT !.fetches = @ + 1, !.status = 500,
                                 !.pc = "raised", !.exc = RaiseForStatus(500),
                                 !.trace = Append(@, Event("mainstay_api_call", 0, PyNone, call.kwargs, NoneObj))]
               ELSE [call EXCEPT !.fetches = @ + 1, !.obj = call.chain[1],
                                 !.pc = "process_first",
                                 !.trace = Append(@, Event("mainstay_api_call", 0, PyNone, call.kwargs, call.chain[1]))]
    /\ UNCHANGED <<dirs, files>>

\* lines 50-52: process_output(format=False) at index 0, then .get('next')
ProcessFirst ==
    /\ Running("process_first")
    /\ LET r == ValidateAndSerialize(call.obj, call.dir, call.name, call.index, dirs, files)
       IN /\ dirs' = r.dirs
          /\ files' = r.files
          /\ call' = IF r.exc # ""
                     THEN [call EXCEPT !.pc = "raised", !.exc = r.exc]
                     ELSE [call EXCEPT !.pc = "loop_test",
                                       !.written = Append(@, call.index),
                                       !.trace = Append(@, Event("write", call.index, PyNone, <<>>, r.val)),
                                       !.next_URI = DictGet(r.val, "next")]

\* lines 53-54: the loop test, and the increment when the loop is entered
LoopTest ==
    /\ Running("loop_test")
    /\ call' = IF Truthy(call.next_URI)
               THEN [call EXCEPT !.pc = "sleep", !.index = @ + 1]
               ELSE [call EXCEPT !.pc = "finish"]
    /\ UNCHANGED <<dirs, files>>

\* lines 55-56: the sleep, skipped when sleep_duration is falsy
Sleep ==
    /\ Running("sleep")
    /\ call' = [call EXCEPT !.pc = "get",
                            !.sleeps = IF call.sleep THEN @ + 1 ELSE @,
                            !.trace = IF call.sleep
                                      THEN Append(@, Event("sleep", call.index, PyNone, <<>>, NoneObj))
                                      ELSE @]
    /\ UNCHANGED <<dirs, files>>

\* line 57: GET of next_URI with the connector's headers and no params; the
\* remote answers 200 with the page behind that cursor, or 500 without one
Get ==
    /\ Running("get")
    /\ \E j \in 1..(Len(call.chain) - 1) : DictGet(call.chain[j], "next") = call.next_URI
    /\ LET next_results == Served(call.chain, call.next_URI)
       IN call' = IF next_results = ServerFailure
                  THEN [call EXCEPT !.fetches = @ + 1, !.gets = @ + 1, !.status = 500,
                                    !.obj = NoneObj, !.pc = "process_next",
                                    !.trace = Append(@, Event("requests.get", call.index, call.next_URI, <<>>, NoneObj))]
                  ELSE [call EXCEPT !.fetches = @ + 1, !.gets = @ + 1, !.status = 200,
                                    !.obj = next_results, !.pc = "process_next",
                                    !.trace = Append(@, Event("requests.get", call.index, call.next_URI, <<>>, next_results))]
    /\ UNCHANGED <<dirs, files>>

\* lines 58-59: process_output(format=True), then next_results['next']
ProcessNext ==
    /\ Running("process_next")
    /\ LET r == ProcessOutput(Response(call.status, call.obj), call.dir, call.name,
                              call.index, dirs, files)
       IN /\ dirs' = r.dirs
          /\ files' = r.files
          /\ call' = IF r.exc # ""
                     THEN [call EXCEPT !.pc = "raised", !.exc = r.exc]
                     ELSE IF ~HasKey(r.val, "next")
                     THEN [call EXCEPT !.pc = "raised", !.exc = "KeyError",
                                       !.written = Append(@, call.index),
                                       !.trace = Append(@, Event("write", call.index, PyNone, <<>>, r.val))]
                     ELSE [call EXCEPT !.pc = "loop_test",
                                       !.written = Append(@, call.index),
                                       !.trace = Append(@, Event("write", call.index, PyNone, <<>>, r.val)),
                                       !.next_URI = GetItem(r.val, "next")]

\* lines 60-63: with serialize=False reload, purge (the user answers the
\* prompt) and return the reloaded dict; otherwise fall off the end
Finish ==
    /\ Running("finish")
    /\ IF call.serialize
       THEN /\ call' = [call EXCEPT !.pc = "done", !.returns = "None"]
            /\ UNCHANGED <<dirs, files>>
       ELSE \E confirm \in Confirmations :
              LET paginated_dict == LoadPaginatedCheckpoints(files, call.dir, call.name, Extension)
                  r == RemovePaginatedCheckpoints(dirs, files, call.dir, call.name,
                                                  Extension, confirm)
              IN /\ dirs' = r.dirs
                 /\ files' = r.files
                 /\ call' = [call EXCEPT !.pc = "done", !.returns = "dict",
                                         !.ret = paginated_dict, !.confirm = confirm,
                                         !.logged = r.logged, !.unlinked = r.unlinked,
                                         !.rmdir = r.rmdir]

\* the frame of a run that stands before line 49
RunFrames ==
    {[Frame("extract_paginated_results") EXCEPT
        !.pc = "first_call", !.dir = LocFlat, !.name = RunName,
        !.serialize = serialize, !.sleep = sleep_duration, !.chain = chain,
        !.kwargs = RunKwargs] :
     serialize \in BOOLEAN, sleep_duration \in BOOLEAN, chain \in ChainsUpTo(MaxPages + 1)}

\* a further run over the same location, once the previous one has ended
NextRun ==
    /\ Idle
    /\ call' \in RunFrames
    /\ UNCHANGED <<dirs, files>>

InitTraversal ==
    /\ dirs \in {{WorkingDir}, {WorkingDir, LocFlat}}
    /\ files = [k \in {} |-> <<>>]
    /\ keyring = EmptyKeyring
    /\ connector = NoConnector
    /\ call \in RunFrames

NextTraversal ==
    \/ FirstCall /\ UNCHANGED <<keyring, connector>>
    \/ ProcessFirst /\ UNCHANGED <<keyring, connector>>
    \/ LoopTest /\ UNCHANGED <<keyring, connector>>
    \/ Sleep /\ UNCHANGED <<keyring, connector>>
    \/ Get /\ UNCHANGED <<keyring, connector>>
    \/ ProcessNext /\ UNCHANGED <<keyring, connector>>
    \/ Finish /\ UNCHANGED <<keyring, connector>>
    \/ NextRun /\ UNCHANGED <<keyring, connector>>

SpecTraversal == InitTraversal /\ [][NextTraversal]_vars

\* the statements of a run are executed one after the other without stalling
SpecTraversalFair == SpecTraversal /\ WF_vars(NextTraversal)

(* ------------------------------- claims -------------------------------- *)

Ended == call.pc \in {"done", "raised"}
IsRun == call.op = "extract_paginated_results"
RunLength == Len(call.chain)

\* "DELETE" in any letter case
IsDeleteSpelling(s) ==
    /\ Len(s) = 6
    /\ \A i \in 1..6 : s[i] \in {<<"D", "E", "L", "E", "T", "E">>[i], <<"d", "e", "l", "e", "t", "e">>[i]}

\* the key `{name}_page-{i}` and the file name `{name}_page-{i}.pickle`
PageKey(name, i) == name \o <<"_", "p", "a", "g", "e", "-">> \o Decimal(i)
PageFile(name, i) == PageKey(name, i) \o <<".", "p", "i", "c", "k", "l", "e">>

\* the checkpoint files of a run name in a location
CheckpointsOf(path, name) ==
    {k \in DOMAIN files : k.dir = path /\ \E i \in 0..(MaxIndex + 1) : k.file = PageFile(name, i)}

\* C1: once "DELETE" (in any letter case) is supplied, remove_paginated_checkpoints
\* has deleted every checkpoint file of the run name: none is left in the location.
C1_ConfirmedPurgeDeletesAll ==
    (call.op = "remove_paginated_checkpoints" /\ IsDeleteSpelling(call.confirm))
        => CheckpointsOf(call.dir, call.name) = {}

\* C2: a run over a chain of N pages (pages 0..N-2 with a cursor, page N-1 without)
\* ends having made exactly N fetches, N-1 of them GETs of a `next` URI, having
\* slept N-1 times when sleep_duration is truthy, and having persisted 0..N-1.
C2_ExactlyNFetches ==
    (IsRun /\ Ended /\ FiniteChain(call.chain))
        => /\ call.fetches = RunLength
           /\ call.gets = RunLength - 1
           /\ (call.sleep => call.sleeps = RunLength - 1)
           /\ call.written = [i \in 1..RunLength |-> i - 1]

\* C3: a run over a chain whose last page has an empty or absent `next` ends
\* without raising.
C3_TerminatesWithoutRaising ==
    (IsRun /\ Ended /\ FiniteChain(call.chain)) => (call.pc = "done" /\ call.exc = "")

\* C4: a run whose first page is valid and has no `next` field ends having made
\* one fetch (the original API call), no GET, no sleep, and one write, at index 0.
C4_SinglePageRun ==
    (IsRun /\ Ended /\ call.chain = <<PageNoNextKey>>)
        => /\ call.fetches = 1
           /\ call.gets = 0
           /\ call.sleeps = 0
           /\ call.written = <<0>>

\* shape validation, as the spec words it: a mapping with a `results` sequence
ShapeValid(page) ==
    /\ page.t = "dict"
    /\ \E i \in 1..Len(page.items) : page.items[i].k = "results" /\ page.items[i].v.t = "list"

\* C5: a page that fails shape validation is never written: process_output raises
\* before the write, whatever the index, and leaves the checkpoint location as it was.
C5_InvalidPageNeverWritten ==
    [][(call'.op = "process_output" /\ call'.exc # "HTTPError" /\ ~ShapeValid(call'.obj))
        => /\ call'.pc = "raised"
           /\ call'.exc = "AssertionError"
           /\ files' = files
           /\ dirs' = dirs]_vars

C5_Witness ==
    /\ call.op = "process_output"
    /\ call.obj = PageNoResults
    /\ call.index = 1
    /\ call.exc = "AssertionError"
    /\ CheckpointsOf(call.dir, call.name) = {FileKey(call.dir, PageFile(call.name, 0))}

\* C6: a run with serialize=false over a chain of N pages returns a mapping that
\* holds all N pages, keyed `{run_name}_page-{i}`, whatever the purge answer.
C6_ReturnsAllPages ==
    (IsRun /\ Ended /\ ~call.serialize /\ FiniteChain(call.chain))
        => /\ call.returns = "dict"
           /\ \A i \in 1..RunLength :
                [key |-> PageKey(call.name, i - 1), value |-> call.chain[i]] \in call.ret

\* C7: with any answer other than "DELETE" (case-insensitive) the purge is a silent
\* no-op: nothing raised, no file deleted or changed, no rmdir attempted.
C7_DeclinedPurgeIsNoOp ==
    [][(call'.op = "remove_paginated_checkpoints" /\ ~IsDeleteSpelling(call'.confirm))
        => /\ call'.pc = "done"
           /\ call'.exc = ""
           /\ call'.unlinked = {}
           /\ call'.rmdir = "not attempted"
           /\ files' = files
           /\ dirs' = dirs]_vars

C7_Witness ==
    /\ call.op = "remove_paginated_checkpoints"
    /\ call.confirm = <<"n", "o">>
    /\ call.logged = {PageFile(call.name, 0), PageFile(call.name, 1)}
    /\ Cardinality(CheckpointsOf(call.dir, call.name)) = 2

\* C8: after serialize_output(page, location, name, i) of a valid page, loading the
\* checkpoints of `name` yields, under key `{name}_page-{i}`, exactly that page.
C8_RoundTrip ==
    (call.op = "serialize_output" /\ call.pc = "done" /\ ShapeValid(call.obj))
        => LET loaded == LoadPaginatedCheckpoints(files, call.dir, call.name, Extension)
               key == PageKey(call.name, call.index)
           IN /\ \E item \in loaded : item.key = key
              /\ \A item \in loaded : item.key = key => item.value = call.obj

C8_Witness ==
    /\ call.op = "serialize_output"
    /\ call.pc = "done"
    /\ call.obj = PageWithNext
    /\ [key |-> PageKey(call.name, call.index), value |-> PageWithNext]
           \in LoadPaginatedCheckpoints(files, call.dir, call.name, Extension)

\* C9: a write replaces the one checkpoint of its (run name, index): the file
\* `{run_name}_page-{index}.pickle` then holds the page just written, no other
\* file appears, and every other checkpoint keeps its content.
C9_IdempotentOverwrite ==
    [][(call'.op = "serialize_output" /\ call'.pc = "done")
        => LET key == FileKey(call'.dir, PageFile(call'.name, call'.index))
           IN /\ DOMAIN files' = DOMAIN files \cup {key}
              /\ PickleLoad(files'[key]) = call'.obj
              /\ \A k \in DOMAIN files \ {key} : files'[k] = files[k]]_vars

C9_Witness ==
    /\ call.op = "serialize_output"
    /\ call.pc = "done"
    /\ call.overwrote
    /\ call.obj = PageNullNext
    /\ Cardinality(DOMAIN files) = 2

\* C10: serialize_output never fails because the location is absent: it creates
\* the location, parent directories included, and writes the page there.
C10_AbsentLocationCreated ==
    (call.op = "serialize_output")
        => /\ call.pc = "done"
           /\ call.dir \in dirs
           /\ FileKey(call.dir, PageFile(call.name, call.index)) \in DOMAIN files

\* C16: a run whose last request is answered with a 500 ends with that HTTPError
\* raised to the caller, having issued each request of the chain once (N fetches,
\* N-1 of them GETs) and written the pages before the failure and nothing else.
C16_NoRetry ==
    (IsRun /\ Ended /\ call.chain[RunLength] = ServerFailure)
        => /\ call.pc = "raised"
           /\ call.exc = "HTTPError"
           /\ call.fetches = RunLength
           /\ call.gets = RunLength - 1
           /\ call.written = [i \in 1..(RunLength - 1) |-> i - 1]

\* C17: after a run that aborts at page k >= 1 (a 500 or a page that fails
\* validation), the pages 0..k-1 are on storage and load as they were fetched,
\* whatever serialize is; no prompt was shown and nothing was deleted.
C17_AbortKeepsCheckpoints ==
    (IsRun /\ Ended /\ RunLength >= 2 /\ call.chain[RunLength] \in {PageNoResults, ServerFailure})
        => /\ \A i \in 1..(RunLength - 1) :
                [key |-> PageKey(call.name, i - 1), value |-> call.chain[i]]
                    \in LoadPaginatedCheckpoints(files, call.dir, call.name, Extension)
           /\ call.confirm = <<>>
           /\ call.unlinked = {}
           /\ call.rmdir = "not attempted"

\* the N checkpoint files of the run hold the N pages of its chain
AllPagesOnStorage ==
    \A i \in 1..RunLength :
        LET key == FileKey(call.dir, PageFile(call.name, i - 1))
        IN key \in DOMAIN files /\ PickleLoad(files[key]) = call.chain[i]

\* nothing was reloaded, no prompt was shown, nothing was deleted
NoReloadNoPurge ==
    /\ call.ret = {}
    /\ call.confirm = <<>>
    /\ call.logged = {}
    /\ call.unlinked = {}
    /\ call.rmdir = "not attempted"

\* C18: a run with serialize=True over a chain of N pages ends normally with the
\* N checkpoint files on storage, without reload, prompt or purge, and with the
\* checkpoint directory in place.
C18_SerializeLeavesCheckpoints ==
    (IsRun /\ Ended /\ call.serialize /\ FiniteChain(call.chain))
        => /\ call.pc = "done"
           /\ AllPagesOnStorage
           /\ NoReloadNoPurge
           /\ call.dir \in dirs

\* C19: a run over a chain of N pages returns a dict that holds all N pages,
\* with serialize=True as well as with serialize=False.
C19_ReturnsDict ==
    (IsRun /\ Ended /\ FiniteChain(call.chain))
        => /\ call.returns = "dict"
           /\ \A i \in 1..RunLength :
                [key |-> PageKey(call.name, i - 1), value |-> call.chain[i]] \in call.ret

\* C20: load_paginated_checkpoints returns one entry per file of the location
\* whose name starts with the run name and ends with the extension, keyed by the
\* file name without the extension and holding the file's content; nothing else
\* is in the mapping, nothing is raised, and storage is left as it was.
C20_LoadIsGlobImage ==
    [][call'.op = "load_paginated_checkpoints"
        => LET matching == {k \in DOMAIN files :
                              /\ k.dir = call'.dir
                              /\ Len(k.file) >= Len(call'.name) + Len(Extension)
                              /\ IsPrefix(call'.name, k.file)
                              /\ IsSuffix(Extension, k.file)}
           IN /\ files' = files
              /\ dirs' = dirs
              /\ call'.exc = ""
              /\ Cardinality(call'.ret) = Cardinality(matching)
              /\ \A k \in matching :
                   [key |-> SubSeq(k.file, 1, Len(k.file) - Len(Extension)),
                    value |-> PickleLoad(files[k])] \in call'.ret]_vars

C20_Witness ==
    /\ call.op = "load_paginated_checkpoints"
    /\ call.dir = LocFlat
    /\ call.name = RunName
    /\ FileKey(LocFlat, PageFile(RunName, 0)) \notin DOMAIN files
    /\ call.ret = {[key |-> PageKey(RunName, 1), value |-> PageWithNext]}

\* process_output(format=True) raises HTTPError for every status other than 200
ProcessOutput_Non200Raised ==
    (call.op = "process_output" /\ call.format /\ call.status # 200)
        => call.exc = "HTTPError"

\* positions of the trace: the fetches, the GETs among them, the writes, the sleeps
Fetches == {p \in 1..Len(call.trace) : call.trace[p].e \in {"mainstay_api_call", "requests.get"}}
Gets == {p \in 1..Len(call.trace) : call.trace[p].e = "requests.get"}
Writes == {p \in 1..Len(call.trace) : call.trace[p].e = "write"}
Sleeps == {p \in 1..Len(call.trace) : call.trace[p].e = "sleep"}

\* C22: at every point of a run the indices written are 0..k-1 in this order, one
\* per fetched and validated page and at most one behind the fetches; checkpoint i
\* holds the page of the i-th fetch (0 = the original call, i = the i-th GET); and
\* a run over a chain of N pages ends with k = N.
C22_CheckpointsTrackFetches ==
    IsRun =>
        /\ call.written = [i \in 1..Len(call.written) |-> i - 1]
        /\ Cardinality(Writes) = Len(call.written)
        /\ Len(call.written) <= call.fetches
        /\ call.fetches <= Len(call.written) + 1
        /\ \A p \in Writes :
             LET i == call.trace[p].i
                 key == FileKey(call.dir, PageFile(call.name, i))
             IN /\ \E q \in Fetches :
                     /\ q < p
                     /\ call.trace[q].i = i
                     /\ call.trace[q].page = call.trace[p].page
                     /\ (call.trace[q].e = "mainstay_api_call") <=> (i = 0)
                /\ key \in DOMAIN files
                /\ PickleLoad(files[key]) = call.trace[p].page
        /\ (Ended /\ FiniteChain(call.chain)) => Len(call.written) = RunLength

\* C23: fetches happen one at a time in index order; the GET of page i+1 comes
\* after the write of page i, with no other fetch in between, and goes to the
\* `next` value of the page written at index i; a run over a chain of N pages
\* makes its N fetches.
C23_StrictlySequential ==
    IsRun =>
        /\ \A p, q \in Fetches : p < q => call.trace[p].i < call.trace[q].i
        /\ \A p \in Gets :
             \E q \in Writes :
                /\ q < p
                /\ call.trace[q].i = call.trace[p].i - 1
                /\ call.trace[p].url = DictGet(call.trace[q].page, "next")
                /\ \A r \in Fetches : ~(q < r /\ r < p)
        /\ (Ended /\ FiniteChain(call.chain)) => Cardinality(Fetches) = RunLength

\* C24: the caller's keyword arguments go into the first request and no other:
\* the original call is the first event, every later request is a GET with the
\* connector's headers and no params to the `next` value of the page before it;
\* a run over a chain of N pages makes that call and N-1 such GETs.
C24_FiltersOnFirstRequestOnly ==
    IsRun =>
        /\ \A p \in Fetches \ Gets : p = 1 /\ call.trace[p].params = call.kwargs
        /\ \A p \in Gets :
             /\ call.trace[p].params = <<>>
             /\ call.trace[p].headers = "connector.headers"
             /\ \E q \in Writes :
                  /\ call.trace[q].i = call.trace[p].i - 1
                  /\ call.trace[p].url = GetItem(call.trace[q].page, "next")
        /\ (Ended /\ FiniteChain(call.chain))
             => /\ Cardinality(Fetches \ Gets) = 1
                /\ Cardinality(Gets) = RunLength - 1

\* C25: with a truthy sleep_duration every GET is preceded by one sleep, which
\* follows the write of the page before; no sleep comes first or last; with a
\* falsy one there is no sleep and every GET follows that write directly; a run
\* over a chain of N pages makes N fetches and N-1 sleeps (none if falsy).
C25_SleepPlacement ==
    IsRun =>
        /\ \A p \in Sleeps :
             /\ call.sleep
             /\ p > 1
             /\ call.trace[p - 1].e = "write"
             /\ call.trace[p - 1].i = call.trace[p].i - 1
             /\ p < Len(call.trace) => call.trace[p + 1].e = "requests.get"
             /\ Ended => p < Len(call.trace)
        /\ \A p \in Gets :
             call.trace[p - 1].e = (IF call.sleep THEN "sleep" ELSE "write")
        /\ (Ended /\ FiniteChain(call.chain))
             => /\ Cardinality(Fetches) = RunLength
                /\ Cardinality(Sleeps) = (IF call.sleep THEN RunLength - 1 ELSE 0)

\* C27: a run ends normally only when the page it wrote last has an empty or
\* absent `next`, and a run over a chain of N pages, whatever N, ends with all
\* N pages written.
C27_CursorExhaustionOnly ==
    IsRun =>
        /\ call.pc = "done" =>
             \E p \in Writes :
                /\ \A q \in Writes : q <= p
                /\ ~Truthy(DictGet(call.trace[p].page, "next"))
        /\ (Ended /\ FiniteChain(call.chain)) => Len(call.written) = RunLength

\* C28: a run with serialize=False over a chain of N pages returns the mapping of
\* exactly its N pages, whatever the location held before.
C28_NoStalePages ==
    (IsRun /\ Ended /\ ~call.serialize /\ FiniteChain(call.chain))
        => /\ call.returns = "dict"
           /\ call.ret = {[key |-> PageKey(call.name, i - 1), value |-> call.chain[i]] :
                             i \in 1..RunLength}

\* C26: a confirmed purge raises nothing; it attempts the removal of the
\* directory, which succeeds exactly when the directory exists and is empty;
\* otherwise the directory stays, and in either case every file that does not
\* match the run's pattern stays with its content.
C26_BestEffortRmdir ==
    [][(call'.op = "remove_paginated_checkpoints" /\ IsDeleteSpelling(call'.confirm))
        => /\ call'.pc = "done"
           /\ call'.exc = ""
           /\ call'.rmdir \in {"removed", "OSError"}
           /\ (call'.rmdir = "removed")
                <=> (call'.dir \in dirs /\ \A k \in DOMAIN files' : k.dir # call'.dir)
           /\ dirs' = (IF call'.rmdir = "removed" THEN dirs \ {call'.dir} ELSE dirs)
           /\ \A k \in DOMAIN files' : k.dir \in dirs'
           /\ \A k \in DOMAIN files :
                (k.dir # call'.dir \/ ~IsPrefix(call'.name, k.file))
                    => (k \in DOMAIN files' /\ files'[k] = files[k])]_vars

\* a confirmed purge of "run2" in a directory that holds a page of "run"
C26_Witness ==
    /\ call.op = "remove_paginated_checkpoints"
    /\ IsDeleteSpelling(call.confirm)
    /\ call.name = <<"r", "u", "n", "2">>
    /\ call.rmdir = "OSError"
    /\ call.exc = ""
    /\ call.dir \in dirs
    /\ DOMAIN files = {FileKey(call.dir, PageFile(RunName, 0))}

\* C29: load_paginated_checkpoints(location, A) returns only entries keyed
\* `A_page-i`, and remove_paginated_checkpoints(location, A) lists for deletion
\* only files named `A_page-i.pickle`, whatever other run names share the location.
C29_NameIsolation ==
    /\ call.op = "load_paginated_checkpoints"
         => \A item \in call.ret : \E i \in Indices : item.key = PageKey(call.name, i)
    /\ call.op = "remove_paginated_checkpoints"
         => \A fn \in call.logged : \E i \in Indices : fn = PageFile(call.name, i)

\* C30: a call of extract_paginated_results with a non-empty output_name gets as
\* far as the original API call: it does not end before its first fetch.
C30_ReachesOriginalCall ==
    (IsRun /\ Ended /\ call.name # <<>>) => call.fetches >= 1

(* -------------------- credential claims (SpecToken) -------------------- *)

\* C21: get_token returns the stored token without prompting and leaves the store
\* as it is when one is stored; otherwise it prompts once, stores the typed token
\* for that service and returns it. reset_token prompts once and overwrites the
\* stored token of its service. No other entry of the store changes.
C21_ReadOrPromptAndPersist ==
    [][/\ call'.op = "get_token" =>
            IF keyring[call'.service] # PyNone
            THEN /\ call'.prompts = 0
                 /\ call'.token = keyring[call'.service]
                 /\ keyring' = keyring
            ELSE /\ call'.prompts = 1
                 /\ call'.token = call'.typed
                 /\ keyring'[call'.service] = call'.typed
       /\ call'.op = "reset_token" =>
            /\ call'.prompts = 1
            /\ keyring'[call'.service] = call'.typed
       /\ call'.op \in {"get_token", "reset_token"} =>
            \A other \in ServiceNames \ {call'.service} : keyring'[other] = keyring[other]]_vars

\* a get_token that returns a stored token without prompting
C21_Witness ==
    /\ call.op = "get_token"
    /\ call.service = "MainstayConnector"
    /\ call.prompts = 0
    /\ call.token = PyStr("t2")
    /\ keyring["MainstayConnector"] = PyStr("t2")
    /\ keyring["staging"] = PyStr("t1")

(* -------------------- connector claims (SpecConnect) ------------------- *)

Flattened ==
    /\ call.op = "MainstayConnect.load_paginated_checkpoints"
    /\ ~call.raw
    /\ call.pc = "done"

RECURSIVE ResultsByPageIndex(_, _, _)
\* the records of the checkpoints `{name}_page-{i}` on storage, by rising i
ResultsByPageIndex(path, name, i) ==
    IF i > MaxIndex THEN <<>>
    ELSE LET key == FileKey(path, PageFile(name, i))
         IN (IF key \in DOMAIN files THEN Records(PickleLoad(files[key])) ELSE <<>>)
            \o ResultsByPageIndex(path, name, i + 1)

\* C11: whatever the order in which the glob enumerates the checkpoints of a run,
\* load_paginated_checkpoints(raw=False) yields the records of page 0, then those
\* of page 1, and so on by the page index embedded in the file name.
C11_FlattenByPageIndex ==
    Flattened => call.rows = ResultsByPageIndex(call.dir, call.name, 0)

RECURSIVE RecordsBefore(_, _)
\* the number of records in the first n pages that were loaded
RecordsBefore(order, n) ==
    IF n = 0 THEN 0
    ELSE RecordsBefore(order, n - 1) + Len(Records(PickleLoad(files[order[n]])))

\* C12: the flattened collection is as long as the `results` of the loaded pages
\* taken together, and each loaded page's records lie in it side by side, in
\* their in-page order, after the records of the pages loaded before it.
C12_FlattenConcatenates ==
    Flattened =>
        /\ Len(call.rows) = RecordsBefore(call.order, Len(call.order))
        /\ \A n \in 1..Len(call.order) :
             LET records == Records(PickleLoad(files[call.order[n]]))
             IN \A j \in 1..Len(records) :
                  call.rows[RecordsBefore(call.order, n - 1) + j] = records[j]

C12_Witness ==
    /\ Flattened
    /\ Len(call.order) = 2
    /\ call.rows = <<3, 4, 3, 4>>

EndpointCall == call.op \in {"get_mainstay_endpoint", "get_contact"}

\* C13: the params handed to requests.get hold no key whose value is None, hold
\* every other keyword argument with the value the caller passed, and hold no
\* key the caller did not pass.
C13_ParamsDropNoneOnly ==
    EndpointCall =>
        /\ \A i \in 1..Len(call.kwargs) :
             IF call.kwargs[i].v = PyNone
             THEN \A j \in 1..Len(call.params) : call.params[j].k # call.kwargs[i].k
             ELSE \E j \in 1..Len(call.params) : call.params[j] = call.kwargs[i]
        /\ \A j \in 1..Len(call.params) :
             \E i \in 1..Len(call.kwargs) : call.kwargs[i] = call.params[j]
        /\ \A i, j \in 1..Len(call.params) :
             i # j => call.params[i].k # call.params[j].k

C13_Witness ==
    /\ call.op = "get_mainstay_endpoint"
    /\ call.kwargs = <<Item("page", PyInt(2)), Item("since", PyNone)>>
    /\ call.params = <<Item("page", PyInt(2))>>
    /\ call.requests = 1

\* C14: a 404 or a 400 answer to an endpoint call is handed back to the caller
\* as a value; it is not raised.
C14_SentinelNotRaised ==
    (EndpointCall /\ call.status \in {400, 404})
        => (call.pc = "done" /\ call.exc = "" /\ call.returns # "None")

\* C15: an answer whose status is neither 200 nor 400 nor 404 is raised as an
\* HTTPError by get_mainstay_endpoint; its body is not returned.
C15_Non200Raised ==
    (EndpointCall /\ call.status \notin {200, 400, 404})
        => (call.exc = "HTTPError" /\ call.returns = "None")

(* -------------------- one connector (SpecSession) ---------------------- *)

\* the last call sent a request with the connector's headers
SentRequest == Constructed /\ call.op \in {"wrapper", "test_connection"} /\ call.requests >= 1

\* C31: whatever get_token and reset_token calls were made on the connector,
\* the Authorization header of each request it sends is "APIToken " followed
\* by the token stored for its service at that moment
C31_HeaderCarriesStoredToken ==
    SentRequest =>
        /\ keyring[connector.service_name] # PyNone
        /\ call.headers =
             <<Item("Authorization", <<"APIToken ", keyring[connector.service_name].s>>)>>

\* what the code does: each request carries the token read at construction
Session_HeaderCarriesConstructionToken ==
    SentRequest =>
        call.headers = <<Item("Authorization", <<"APIToken ", connector.token.s>>)>>

\* a request sent while the stored token is still the one read at construction
Session_FreshHeaderSent ==
    /\ SentRequest
    /\ keyring[connector.service_name] = connector.token

\* a run started on the connector ends before it sends any request
Session_RunSendsNoRequest ==
    (Constructed /\ call.op = "extract_paginated_results")
        => (call.pc = "raised" /\ call.fetches = 0 /\ call.gets = 0)

\* the endpoint path of each wrapper
EndpointPath(wrapper, arg) ==
    CASE wrapper = "get_contact" -> <<"contacts/", arg.s, "/">>
      [] wrapper = "get_contacts" -> <<"contacts/">>
      [] wrapper = "get_custom_fields" -> <<"custom_fields/">>
      [] wrapper = "get_custom_values" -> <<"custom_values/">>
      [] wrapper = "get_default_fields" -> <<"default_fields/">>
      [] wrapper = "get_campaign_list" -> <<"campaigns/">>
      [] wrapper = "get_messages" -> <<"messages/">>

\* the filter keyword arguments the caller gave to a wrapper
FilterKwargs(wrapper, arg, kwargs) ==
    IF wrapper = "get_custom_values" THEN <<Item("field", arg)>> ELSE kwargs

Occurrences(url, part) == Cardinality({i \in 1..Len(url) : url[i] = part})

WrapperRequestOk ==
    /\ call.requests = 1
    /\ call.url = BaseUrl \o EndpointPath(call.wrapper, call.arg)
    /\ Occurrences(call.url, BaseUrl[1]) = 1
    /\ call.forwarded = FilterKwargs(call.wrapper, call.arg, call.kwargs)

\* C32: each per-endpoint wrapper sends its GET to base_url followed by its
\* endpoint path, with base_url exactly once in the URL, and hands its filter
\* keyword arguments unchanged to get_mainstay_endpoint
C32_WrapperUrlAndKwargs == (call.op = "wrapper") => WrapperRequestOk

\* every wrapper other than get_campaign_list does so
Session_OtherWrappersUrlAndKwargs ==
    (call.op = "wrapper" /\ call.wrapper # "get_campaign_list") => WrapperRequestOk

\* get_campaign_list forwards its keyword arguments but never requests
\* base_url + "campaigns/"
Session_CampaignListUrl ==
    (call.op = "wrapper" /\ call.wrapper = "get_campaign_list")
        => /\ call.url = BaseUrl \o BaseUrl \o <<"campaigns/">>
           /\ call.forwarded = call.kwargs

(* --------------- lines 49-63 taken alone (SpecTraversal) --------------- *)

\* over a finite chain the loop makes N fetches, N-1 GETs, N-1 sleeps when
\* sleep_duration is truthy, and writes 0..N-1
Traversal_ExactlyNFetches == C2_ExactlyNFetches

\* a later page without the `next` key ends the run with KeyError
Traversal_NoKeyErrorOnLaterPage ==
    ~(IsRun /\ call.exc = "KeyError" /\ call.index >= 1 /\ FiniteChain(call.chain))

\* a first page without `next` is one fetch and one write
Traversal_SinglePageRun == C4_SinglePageRun

\* a 500 ends the run with HTTPError after one issue of each request
Traversal_NoRetry == C16_NoRetry

\* an abort at page k >= 1 leaves pages 0..k-1 loadable, without prompt or purge
Traversal_AbortKeepsCheckpoints == C17_AbortKeepsCheckpoints

\* a run that ends normally with serialize=True leaves its N files, without
\* reload, prompt or purge
Traversal_SerializeLeavesCheckpoints ==
    (IsRun /\ call.pc = "done" /\ call.serialize)
        => (AllPagesOnStorage /\ NoReloadNoPurge /\ call.dir \in dirs)

\* a run that ends normally with serialize=True returns a dict
Traversal_SerializedRunReturnsDict ==
    (IsRun /\ call.pc = "done" /\ call.serialize) => call.returns = "dict"

\* checkpoints follow the fetches, index by index, at every point of a run
Traversal_CheckpointsTrackFetches == C22_CheckpointsTrackFetches

\* one fetch at a time, each GET after the write before it and to its cursor
Traversal_StrictlySequential == C23_StrictlySequential

\* keyword arguments in the original call only; GETs to the literal cursor
Traversal_FiltersOnFirstRequestOnly == C24_FiltersOnFirstRequestOnly

\* one sleep before each GET when sleep_duration is truthy, none otherwise
Traversal_SleepPlacement == C25_SleepPlacement

\* normal end on an exhausted cursor only; all N pages of a chain written
Traversal_CursorExhaustionOnly == C27_CursorExhaustionOnly

\* a run that ends normally with serialize=False returns as many pages as it fetched
Traversal_NoStalePages ==
    (IsRun /\ call.pc = "done" /\ ~call.serialize) => Cardinality(call.ret) = RunLength

\* every run that stands before line 49 comes to an end (SpecTraversalFair)
Traversal_Terminates == (IsRun /\ call.pc = "first_call") ~> Ended

\* a run over a chain of MaxPages + 1 pages that has written them all
Traversal_LongestChainPersisted ==
    ~(IsRun /\ call.pc = "done" /\ Len(call.written) = MaxPages + 1)

\* a run that ends normally with serialize=False returns the reloaded pages
Traversal_ReturnsAllPages ==
    (IsRun /\ call.pc = "done" /\ ~call.serialize)
        => /\ call.returns = "dict"
           /\ \A i \in 1..RunLength :
                [key |-> PageKey(call.name, i - 1), value |-> call.chain[i]] \in call.ret

====
